---- MODULE Spec2Model ----
(***************************************************************************)
(* Model of notebooks/segmentation_2d_pytorch.ipynb: the notebook's cells, *)
(* the CustomDataset class it defines, the transform pipeline it composes  *)
(* and the two data managers it builds.                                    *)
(***************************************************************************)
EXTENDS Integers, Sequences, FiniteSets, TLC

VARIABLES
    \* ---- CustomDataset (cell 8) and its callers
    img_slice,          \* the img argument of CustomDataset.__init__, by value
    mask_slice,         \* the mask argument of CustomDataset.__init__, by value
    arg_num_samples,    \* the num_samples argument of CustomDataset.__init__
    heap,               \* object store: reference -> the dict object it names
    self_num_samples,   \* self.num_samples
    ret,                \* outcome of the last __getitem__ / __len__ call
    it                  \* a reader that indexes 0, 1, 2, ... until IndexError

adapterVars == <<img_slice, mask_slice, arg_num_samples, heap, self_num_samples, ret, it>>

VARIABLES
    \* ---- the notebook, run cell by cell from the top
    nb_pc,              \* the code cell to run next, "done" or "aborted"
    nb_error,           \* the exception that aborted the run, or "none"
    file_shapes,        \* shapes of the two volumes in the downloaded archive
    img_shape,          \* img.shape once loaded, <<>> before
    mask_shape,         \* mask.shape once loaded, <<>> before
    nb_env              \* names bound in the kernel by the cells run so far

notebookVars == <<nb_pc, nb_error, file_shapes, img_shape, mask_shape, nb_env>>

VARIABLES
    \* ---- one sample going through transforms (cell 9)
    t_pc,               \* position in transforms of the stage to apply next
    t_in,               \* spatial size <<h, w>> of the sample handed in
    t_data,             \* shape <<c, h, w>> of sample["data"]
    t_label,            \* shape <<c, h, w>> of sample["label"]
    t_offset,           \* the crop offset drawn, <<>> before the crop
    t_applied           \* names of the stages applied so far, in order

transformVars == <<t_pc, t_in, t_data, t_label, t_offset, t_applied>>

VARIABLES
    \* ---- one data manager (cell 10) iterated by its consumer
    m_b,                \* batch size
    m_sampler,          \* "sequential" or "random"
    m_remaining,        \* indices the sampler has not yet given in this pass
    m_batches,          \* batches of this pass, each the indices it holds
    m_pass              \* passes completed

managerVars == <<m_b, m_sampler, m_remaining, m_batches, m_pass>>

VARIABLES
    \* ---- the augmentation worker pool of a data manager
    w_total,            \* number of batches of the pass, numbered in sampling order
    w_pending,          \* number of the batch handed out next
    w_busy,             \* worker -> the batch it is transforming, 0 when idle
    w_done,             \* transformed batches not yet passed on
    w_out,              \* batches the consumer received, in order of receipt
    w_overtook          \* some batch was finished while an earlier one was not

workerVars == <<w_total, w_pending, w_busy, w_done, w_out, w_overtook>>

vars == <<adapterVars, notebookVars, transformVars, managerVars, workerVars>>

notAdapter == <<notebookVars, transformVars, managerVars, workerVars>>
notNotebook == <<adapterVars, transformVars, managerVars, workerVars>>
notTransform == <<adapterVars, notebookVars, managerVars, workerVars>>
notManager == <<adapterVars, notebookVars, transformVars, workerVars>>
notWorker == <<adapterVars, notebookVars, transformVars, managerVars>>

\* ------------------------------------------------------------------ bounds
MaxPixel == 1
MaxSamples == 3
MaxReads == 5

\* ------------------------------------------------------------- data values
Pixels == 0..MaxPixel

\* 2D shapes of a slice (rows, columns); img_slice and mask_slice are cut
\* from volumes of one shape, so both have the same 2D shape.
SliceShapes == {<<1, 1>>, <<1, 2>>, <<2, 1>>}

Slices(shape) == [1..shape[1] -> [1..shape[2] -> Pixels]]

Shape2(a) == <<Len(a), Len(a[1])>>

\* a.reshape(1, *a.shape): the same elements under a leading axis of size 1
Reshape1(a) == <<a>>

\* the one dict object a CustomDataset owns
DataRef == "self.data"

Refs == {DataRef}

Indices == (0 - 1)..(MaxSamples + 1)

NoRet == [op |-> "none", index |-> 0, kind |-> "none", ref |-> "none", value |-> 0]

\* --------------------------------------------------------- CustomDataset
\* __init__ with the two arrays stored under each other's key
CustomDataset_init_swapped(img, mask, num_samples) ==
    /\ img_slice = img
    /\ mask_slice = mask
    /\ arg_num_samples = num_samples
    /\ heap = [r \in Refs |-> [data |-> Reshape1(mask), label |-> Reshape1(img)]]
    /\ self_num_samples = num_samples

\* __init__(self, img, mask, num_samples)
CustomDataset_init(img, mask, num_samples) ==
    /\ img_slice = img
    /\ mask_slice = mask
    /\ arg_num_samples = num_samples
    /\ heap = [r \in Refs |-> [data |-> Reshape1(img), label |-> Reshape1(mask)]]
    /\ self_num_samples = num_samples

\* __getitem__(self, index): return self.data -- the index is not read
CustomDataset_getitem(index) ==
    [op |-> "getitem", index |-> index, kind |-> "return", ref |-> DataRef, value |-> 0]

\* __len__ as AbstractDataset has it, len(self.data): the number of keys
AbstractDataset_len ==
    [op |-> "len", index |-> 0, kind |-> "return", ref |-> "none",
     value |-> Cardinality(DOMAIN heap[DataRef])]

\* __len__ counting one sample too many
CustomDataset_len_plus1 ==
    [op |-> "len", index |-> 0, kind |-> "return", ref |-> "none", value |-> self_num_samples + 1]

\* __len__(self): return self.num_samples
CustomDataset_len ==
    [op |-> "len", index |-> 0, kind |-> "return", ref |-> "none", value |-> self_num_samples]

\* a caller evaluates dataset[index]
GetItem ==
    /\ \E index \in Indices : ret' = CustomDataset_getitem(index)
    /\ UNCHANGED <<img_slice, mask_slice, arg_num_samples, heap, self_num_samples, it, notAdapter>>

\* a caller evaluates len(dataset)
Length ==
    /\ ret' = CustomDataset_len
    /\ UNCHANGED <<img_slice, mask_slice, arg_num_samples, heap, self_num_samples, it, notAdapter>>

\* One step of reading the dataset by successive indices (Python's sequence
\* iteration protocol over __getitem__): dataset[it.index] is evaluated, a
\* returned sample is counted and the index advances, an IndexError ends
\* the reading.
IterNext ==
    /\ ~it.done
    /\ it.index < MaxReads
    /\ LET r == CustomDataset_getitem(it.index) IN
         /\ ret' = r
         /\ it' = IF r.kind = "return"
                    THEN [index |-> it.index + 1, count |-> it.count + 1, done |-> FALSE]
                    ELSE [it EXCEPT !.done = TRUE]
    /\ UNCHANGED <<img_slice, mask_slice, arg_num_samples, heap, self_num_samples, notAdapter>>

\* A consumer that was handed a sample by __getitem__ writes into it
\* (sample[key] = a): the write goes to the object the reference names.
ConsumerModify ==
    /\ ret.op = "getitem"
    /\ ret.kind = "return"
    /\ \E key \in {"data", "label"} : \E a \in Slices(Shape2(img_slice)) :
         heap' = [heap EXCEPT ![ret.ref] =
                    IF key = "data" THEN [@ EXCEPT !.data = Reshape1(a)]
                                    ELSE [@ EXCEPT !.label = Reshape1(a)]]
    /\ UNCHANGED <<img_slice, mask_slice, arg_num_samples, self_num_samples, ret, it, notAdapter>>

AdapterInit ==
    /\ \E shape \in SliceShapes : \E img \in Slices(shape) : \E mask \in Slices(shape) :
         \E n \in 1..MaxSamples : CustomDataset_init(img, mask, n)
    /\ ret = NoRet
    /\ it = [index |-> 0, count |-> 0, done |-> FALSE]

\* the adapter's state while another component is under study
AdapterIdle ==
    /\ CustomDataset_init(<<<<0>>>>, <<<<0>>>>, 1)
    /\ ret = NoRet
    /\ it = [index |-> 0, count |-> 0, done |-> FALSE]

\* ------------------------------------------------------------ the notebook
\* program constants of the notebook
BatchSize == 64
SliceIndex == 100
ValSamples == 1
NumProcesses == 4
CropSize == 150
ResizeTarget == 224

\* shapes a volume of the archive may have: (192, 192, 174) in the recorded
\* run; small in-plane sizes, and depths on both sides of SliceIndex
VolumeShapes == {<<x, y, z>> : x \in {1, 2}, y \in {1, 2}, z \in {SliceIndex, SliceIndex + 1, 174}}

\* the assertion left out
AssertOmitted(m, i) == TRUE

\* assert mask.shape == img.shape
AssertSameShape(m, i) == m = i

\* a[:, :, k] : IndexError unless k is an index of the last axis
SliceOk(shape, k) == k < shape[3]

Abort(e) ==
    /\ nb_pc' = "aborted"
    /\ nb_error' = e

Goto(cell) ==
    /\ nb_pc' = cell
    /\ nb_error' = nb_error

\* cell 1: params = Parameters(...)
CellParams ==
    /\ nb_pc = "params"
    /\ Goto("logging")
    /\ nb_env' = nb_env \cup {"params"}
    /\ UNCHANGED <<file_shapes, img_shape, mask_shape, notNotebook>>

\* cell 2: logging.basicConfig(...); logger = logging.getLogger(...)
CellLogging ==
    /\ nb_pc = "logging"
    /\ Goto("download")
    /\ nb_env' = nb_env \cup {"logger"}
    /\ UNCHANGED <<file_shapes, img_shape, mask_shape, notNotebook>>

\* cell 3: urlopen + ZipFile.extract; a network or archive failure is not
\* handled and ends the run
CellDownload ==
    /\ nb_pc = "download"
    /\ \/ /\ Goto("load")
          /\ nb_env' = nb_env \cup {"img_file", "mask_file"}
       \/ /\ Abort("URLError")
          /\ nb_env' = nb_env
    /\ UNCHANGED <<file_shapes, img_shape, mask_shape, notNotebook>>

\* cell 4: img, mask are read and bound, then the assertion is evaluated
CellLoad ==
    /\ nb_pc = "load"
    /\ img_shape' = file_shapes.img
    /\ mask_shape' = file_shapes.mask
    /\ nb_env' = nb_env \cup {"img", "mask"}
    /\ IF AssertSameShape(file_shapes.mask, file_shapes.img)
         THEN Goto("unique")
         ELSE Abort("AssertionError")
    /\ UNCHANGED <<file_shapes, notNotebook>>

\* cell 5: np.unique(mask)
CellUnique ==
    /\ nb_pc = "unique"
    /\ Goto("slice")
    /\ UNCHANGED <<file_shapes, img_shape, mask_shape, nb_env, notNotebook>>

\* cell 6: img_slice = img[:, :, 100]; mask_slice = mask[:, :, 100]; plot
CellSlice ==
    /\ nb_pc = "slice"
    /\ IF ~SliceOk(img_shape, SliceIndex)
         THEN Abort("IndexError") /\ nb_env' = nb_env
         ELSE IF ~SliceOk(mask_shape, SliceIndex)
           THEN Abort("IndexError") /\ nb_env' = nb_env \cup {"img_slice"}
           ELSE Goto("class") /\ nb_env' = nb_env \cup {"img_slice", "mask_slice"}
    /\ UNCHANGED <<file_shapes, img_shape, mask_shape, notNotebook>>

\* cell 7: class CustomDataset(AbstractDataset)
CellClass ==
    /\ nb_pc = "class"
    /\ Goto("datasets")
    /\ nb_env' = nb_env \cup {"CustomDataset"}
    /\ UNCHANGED <<file_shapes, img_shape, mask_shape, notNotebook>>

\* cell 8: dataset_train, dataset_val = CustomDataset(img_slice, mask_slice, ...)
CellDatasets ==
    /\ nb_pc = "datasets"
    /\ Goto("transforms")
    /\ nb_env' = nb_env \cup {"dataset_train", "dataset_val"}
    /\ UNCHANGED <<file_shapes, img_shape, mask_shape, notNotebook>>

\* cell 9: transforms = Compose([...])
CellTransforms ==
    /\ nb_pc = "transforms"
    /\ Goto("managers")
    /\ nb_env' = nb_env \cup {"transforms"}
    /\ UNCHANGED <<file_shapes, img_shape, mask_shape, notNotebook>>

\* cell 10: manager_train, manager_val = BaseDataManager(...)
CellManagers ==
    /\ nb_pc = "managers"
    /\ Goto("experiment")
    /\ nb_env' = nb_env \cup {"manager_train", "manager_val"}
    /\ UNCHANGED <<file_shapes, img_shape, mask_shape, notNotebook>>

\* cell 11: experiment = PyTorchExperiment(...); experiment.save();
\* model = experiment.run(manager_train, manager_val)
CellExperiment ==
    /\ nb_pc = "experiment"
    /\ Goto("done")
    /\ nb_env' = nb_env \cup {"experiment", "saved", "model"}
    /\ UNCHANGED <<file_shapes, img_shape, mask_shape, notNotebook>>

\* names that exist only once something was derived from the volumes
Derived == {"img_slice", "mask_slice", "dataset_train", "dataset_val",
            "manager_train", "manager_val", "experiment", "saved", "model"}

NotebookInit ==
    /\ nb_pc = "params"
    /\ nb_error = "none"
    /\ file_shapes \in [img : VolumeShapes, mask : VolumeShapes]
    /\ img_shape = <<>>
    /\ mask_shape = <<>>
    /\ nb_env = {}

NotebookIdle ==
    /\ nb_pc = "idle"
    /\ nb_error = "none"
    /\ file_shapes = [img |-> <<>>, mask |-> <<>>]
    /\ img_shape = <<>>
    /\ mask_shape = <<>>
    /\ nb_env = {}

NotebookNext ==
    \/ CellParams \/ CellLogging \/ CellDownload \/ CellLoad \/ CellUnique
    \/ CellSlice \/ CellClass \/ CellDatasets \/ CellTransforms
    \/ CellManagers \/ CellExperiment

\* ----------------------------------------------------- transform pipeline
\* the resize listed before the crop
transformsResizeFirst ==
    <<"ResizeTransform", "RandomCropTransform",
      "ContrastAugmentationTransform", "MeanStdNormalizationTransform">>

\* transforms = Compose([...]): the stages, in the order of the list
transforms ==
    <<"RandomCropTransform", "ResizeTransform",
      "ContrastAugmentationTransform", "MeanStdNormalizationTransform">>

\* spatial sizes of a sample handed to the pipeline: the crop size, one more,
\* and the 192 of the recorded run
InputSizes == {CropSize, CropSize + 1, 192}

Min(a, b) == IF a <= b THEN a ELSE b

\* offsets at which a window of `size` lies inside both spatial axes
CropOffsets(shape, size) ==
    {<<ox, oy>> : ox \in 0..(shape[2] - size), oy \in 0..(shape[3] - size)}

\* RandomCropTransform((150, 150)): elements o .. o + 150 - 1 of each spatial axis
RandomCropTransform(shape, offset) ==
    <<shape[1],
      Min(offset[1] + CropSize, shape[2]) - offset[1],
      Min(offset[2] + CropSize, shape[3]) - offset[2]>>

\* ResizeTransform((224, 224)): resampled to the target, whatever the input size
ResizeTransform(shape) == <<shape[1], ResizeTarget, ResizeTarget>>

\* ContrastAugmentationTransform(): rescales the values of "data"
ContrastAugmentationTransform(shape) == shape

\* MeanStdNormalizationTransform(mean, std): (x - mean) / std on "data"
MeanStdNormalizationTransform(shape) == shape

StageDone ==
    /\ t_applied' = Append(t_applied, transforms[t_pc])
    /\ t_pc' = t_pc + 1
    /\ UNCHANGED <<t_in, notTransform>>

StageRandomCrop ==
    /\ t_pc <= Len(transforms)
    /\ transforms[t_pc] = "RandomCropTransform"
    /\ \E off \in CropOffsets(t_data, CropSize) :
         /\ t_offset' = off
         /\ t_data' = RandomCropTransform(t_data, off)
         /\ t_label' = RandomCropTransform(t_label, off)
    /\ StageDone

StageResize ==
    /\ t_pc <= Len(transforms)
    /\ transforms[t_pc] = "ResizeTransform"
    /\ t_data' = ResizeTransform(t_data)
    /\ t_label' = ResizeTransform(t_label)
    /\ t_offset' = t_offset
    /\ StageDone

StageContrast ==
    /\ t_pc <= Len(transforms)
    /\ transforms[t_pc] = "ContrastAugmentationTransform"
    /\ t_data' = ContrastAugmentationTransform(t_data)
    /\ UNCHANGED <<t_label, t_offset>>
    /\ StageDone

StageNormalize ==
    /\ t_pc <= Len(transforms)
    /\ transforms[t_pc] = "MeanStdNormalizationTransform"
    /\ t_data' = MeanStdNormalizationTransform(t_data)
    /\ UNCHANGED <<t_label, t_offset>>
    /\ StageDone

TransformInit ==
    /\ t_pc = 1
    /\ t_in \in InputSizes \X InputSizes
    /\ t_data = <<1, t_in[1], t_in[2]>>
    /\ t_label = <<1, t_in[1], t_in[2]>>
    /\ t_offset = <<>>
    /\ t_applied = <<>>

TransformIdle ==
    /\ t_pc = 0
    /\ t_in = <<>>
    /\ t_data = <<>>
    /\ t_label = <<>>
    /\ t_offset = <<>>
    /\ t_applied = <<>>

TransformNext == StageRandomCrop \/ StageResize \/ StageContrast \/ StageNormalize

\* ------------------------------------------------------------ data manager
MaxDatasetLen == 10
MaxShuffleLen == 4
MaxBatchSize == 4
MaxPasses == 2

Range(f) == {f[j] : j \in DOMAIN f}

\* the k smallest elements of S, ascending
RECURSIVE Ascending(_, _)
Ascending(S, k) ==
    IF k = 0 \/ S = {} THEN <<>>
    ELSE LET m == CHOOSE x \in S : \A y \in S : x <= y
         IN <<m>> \o Ascending(S \ {m}, k - 1)

\* every order in which k distinct elements can be taken out of S
RECURSIVE Draws(_, _)
Draws(S, k) ==
    IF k = 0 \/ S = {} THEN {<<>>}
    ELSE UNION {{<<x>> \o d : d \in Draws(S \ {x}, k - 1)} : x \in S}

\* SequentialSampler: the next k indices in ascending order
SequentialSampler(S, k) == {Ascending(S, k)}

\* k indices drawn independently, so that one may come twice
RandomSamplerWithReplacement(S, k) == [1..k -> S]

\* RandomSampler: k indices not yet given in this pass, in any order
RandomSampler(S, k) == Draws(S, k)

Sampler(kind, S, k) ==
    IF kind = "sequential" THEN SequentialSampler(S, k) ELSE RandomSampler(S, k)

\* the index set of a pass: one index per sample of the dataset
PassIndices == 0..(CustomDataset_len.value - 1)

\* the consumer asks for the next batch: batch_size indices from the sampler,
\* fewer when fewer are left, each loaded with dataset[index]
NextBatch ==
    /\ m_remaining # {}
    /\ \E idxs \in Sampler(m_sampler, m_remaining, Min(m_b, Cardinality(m_remaining))) :
         /\ \A j \in DOMAIN idxs : CustomDataset_getitem(idxs[j]).kind = "return"
         /\ m_batches' = Append(m_batches, idxs)
         /\ m_remaining' = m_remaining \ Range(idxs)
    /\ UNCHANGED <<m_b, m_sampler, m_pass, notManager>>

\* the pass is over and the consumer iterates the manager again
Restart ==
    /\ m_remaining = {}
    /\ m_pass < MaxPasses
    /\ m_pass' = m_pass + 1
    /\ m_remaining' = PassIndices
    /\ m_batches' = <<>>
    /\ UNCHANGED <<m_b, m_sampler, notManager>>

ManagerInit ==
    /\ m_b \in (1..MaxBatchSize) \cup {BatchSize}
    /\ m_sampler \in {"sequential", "random"}
    /\ m_remaining = PassIndices
    /\ m_batches = <<>>
    /\ m_pass = 0

ManagerIdle ==
    /\ m_b = 1
    /\ m_sampler = "sequential"
    /\ m_remaining = {}
    /\ m_batches = <<>>
    /\ m_pass = 0

\* the dataset a manager is built over: shuffled passes are kept short
ManagerDataset ==
    /\ \E n \in 1..MaxDatasetLen : CustomDataset_init(<<<<0>>>>, <<<<0>>>>, n)
    /\ ret = NoRet
    /\ it = [index |-> 0, count |-> 0, done |-> FALSE]

ManagerNext == NextBatch \/ Restart

\* ------------------------------------------------------------- worker pool
MaxBatches == 4

Workers == 1..NumProcesses

\* any finished batch is passed on, in order of completion
ReassembleAsFinished(done, out) == done

\* the batches the consumer may be given now: the one that follows, in
\* sampling order, the last one it received
Reassemble(done, out) == {s \in done : s = Len(out) + 1}

\* the next batch of the pass is handed to an idle worker
Dispatch ==
    /\ w_pending <= w_total
    /\ \E w \in Workers :
         /\ w_busy[w] = 0
         /\ w_busy' = [w_busy EXCEPT ![w] = w_pending]
    /\ w_pending' = w_pending + 1
    /\ UNCHANGED <<w_total, w_done, w_out, w_overtook, notWorker>>

\* a worker has applied the transform pipeline to its batch
Finish ==
    /\ \E w \in Workers :
         /\ w_busy[w] # 0
         /\ w_done' = w_done \cup {w_busy[w]}
         /\ w_busy' = [w_busy EXCEPT ![w] = 0]
         /\ w_overtook' = (w_overtook \/ \E v \in Workers : w_busy[v] # 0 /\ w_busy[v] < w_busy[w])
    /\ UNCHANGED <<w_total, w_pending, w_out, notWorker>>

\* the consumer receives a batch
Deliver ==
    /\ \E s \in Reassemble(w_done, w_out) :
         /\ w_out' = Append(w_out, s)
         /\ w_done' = w_done \ {s}
    /\ UNCHANGED <<w_total, w_pending, w_busy, w_overtook, notWorker>>

WorkerInit ==
    /\ w_total \in 1..MaxBatches
    /\ w_pending = 1
    /\ w_busy = [w \in Workers |-> 0]
    /\ w_done = {}
    /\ w_out = <<>>
    /\ w_overtook = FALSE

WorkerIdle ==
    /\ w_total = 0
    /\ w_pending = 1
    /\ w_busy = [w \in Workers |-> 0]
    /\ w_done = {}
    /\ w_out = <<>>
    /\ w_overtook = FALSE

WorkerNext == Dispatch \/ Finish \/ Deliver

\* ---------------------------------------------------------- specifications
\* the dataset under get and length calls
Init == AdapterInit /\ NotebookIdle /\ TransformIdle /\ ManagerIdle /\ WorkerIdle

Next == GetItem \/ Length \/ IterNext

Spec == Init /\ [][Next]_vars

\* the dataset with a consumer that writes into the samples it is handed
NextConsumer == GetItem \/ Length \/ ConsumerModify

SpecConsumer == Init /\ [][NextConsumer]_vars

\* the notebook run from its first cell
InitNotebook == NotebookInit /\ AdapterIdle /\ TransformIdle /\ ManagerIdle /\ WorkerIdle

SpecNotebook == InitNotebook /\ [][NotebookNext]_vars

\* one sample through the transform pipeline
InitTransform == TransformInit /\ AdapterIdle /\ NotebookIdle /\ ManagerIdle /\ WorkerIdle

SpecTransform == InitTransform /\ [][TransformNext]_vars

\* passes over a data manager
InitManager ==
    /\ ManagerDataset /\ ManagerInit /\ NotebookIdle /\ TransformIdle /\ WorkerIdle
    /\ (m_sampler = "random" => self_num_samples <= MaxShuffleLen)

SpecManager == InitManager /\ [][ManagerNext]_vars

\* one pass of batches through the worker pool
InitWorkers == WorkerInit /\ AdapterIdle /\ NotebookIdle /\ TransformIdle /\ ManagerIdle

SpecWorkers == InitWorkers /\ [][WorkerNext]_vars

\* ------------------------------------------------------------- properties
\* the indices i with 0 <= i < num_samples
ValidIndices == 0..(arg_num_samples - 1)

\* the sample a dataset is built with: the two slices by value, each under
\* a leading axis of size 1
BuiltSample == [data |-> <<img_slice>>, label |-> <<mask_slice>>]

\* C1: in every state reached by get and length calls, get(i) returns, for
\* every valid index i, the stored sample, whose image and label are the
\* slices given at construction under a leading channel axis of size 1; any
\* two valid indices give the same pair.
C1_GetReturnsStoredSample ==
    /\ \A i \in ValidIndices :
         LET r == CustomDataset_getitem(i) IN
           /\ r.kind = "return"
           /\ heap[r.ref] = BuiltSample
           /\ Len(heap[r.ref].data) = 1
           /\ Len(heap[r.ref].label) = 1
           /\ Shape2(heap[r.ref].data[1]) = Shape2(img_slice)
    /\ \A i, j \in ValidIndices :
         heap[CustomDataset_getitem(i).ref] = heap[CustomDataset_getitem(j).ref]
    /\ (ret.op = "getitem" /\ ret.index \in ValidIndices) =>
         (ret.kind = "return" /\ heap[ret.ref] = BuiltSample)

\* C1 witness: after earlier get calls, a get at the last valid index of a
\* dataset of several samples returned the stored pair of distinct slices
C1_Witness ==
    /\ arg_num_samples = MaxSamples
    /\ it.count >= 2
    /\ ret.op = "getitem"
    /\ ret.index = arg_num_samples - 1
    /\ ret.kind = "return"
    /\ img_slice # mask_slice
    /\ heap[ret.ref] = BuiltSample

\* C2: length() returns the num_samples given at construction, in every
\* state reached by get and length calls.
C2_LengthIsNumSamples ==
    /\ CustomDataset_len.kind = "return"
    /\ CustomDataset_len.value = arg_num_samples
    /\ (ret.op = "len" => ret.value = arg_num_samples)

\* C2 witness: length() returned num_samples after get calls went before
C2_Witness ==
    /\ ret.op = "len"
    /\ ret.value = MaxSamples
    /\ arg_num_samples = MaxSamples
    /\ it.count >= 1

\* C3 as claimed: a get with an index outside [0, num_samples) ends in an
\* IndexError and returns no sample.
C3_OutOfRangeRaises ==
    (ret.op = "getitem" /\ ret.index \notin ValidIndices) =>
        (ret.kind = "IndexError" /\ ret.ref = "none")

\* C8 as claimed: a reader taking the indices 0, 1, 2, ... in turn receives
\* the sample num_samples times and no more.
C8_ReadingEndsAfterNumSamples == it.count <= arg_num_samples

\* C10 as claimed: whatever a consumer does to the sample it was handed, the
\* sample the dataset stores equals the one built at construction.
C10_StoredSampleUnchanged ==
    /\ heap[DataRef] = BuiltSample
    /\ \A i \in ValidIndices : heap[CustomDataset_getitem(i).ref] = BuiltSample

\* C4: whenever a slice, dataset, data manager or experiment exists, the
\* loaded volumes have equal shapes; with unequal shapes the run is aborted
\* by the AssertionError and nothing was derived; with equal shapes the
\* assertion does not abort the run.
C4_ShapeCheckedBeforeUse ==
    /\ (nb_env \cap Derived # {}) => (img_shape # <<>> /\ img_shape = mask_shape)
    /\ (img_shape # mask_shape) =>
         (nb_pc = "aborted" /\ nb_error = "AssertionError" /\ nb_env \cap Derived = {})
    /\ (nb_error = "AssertionError") => (img_shape # mask_shape)
    /\ (nb_pc \in {"slice", "class", "datasets", "transforms", "managers", "experiment", "done"}) =>
         (img_shape # <<>> /\ img_shape = mask_shape)

\* C4 witness: the run went through to the experiment, with volumes loaded
C4_Witness ==
    /\ nb_pc = "done"
    /\ {"img_slice", "dataset_train", "manager_val", "model"} \subseteq nb_env
    /\ img_shape = mask_shape
    /\ img_shape = <<2, 1, 174>>

\* the stages as the notebook lists them
DeclaredOrder ==
    <<"RandomCropTransform", "ResizeTransform",
      "ContrastAugmentationTransform", "MeanStdNormalizationTransform">>

\* C7: the stages run in the order crop, resize, contrast, normalize, and
\* for an input of at least the crop size, whatever offset is drawn, image
\* and label leave the pipeline with the resize target as spatial size.
C7_PipelineOrderAndShape ==
    /\ Len(t_applied) <= Len(DeclaredOrder)
    /\ \A k \in DOMAIN t_applied : t_applied[k] = DeclaredOrder[k]
    /\ (t_pc > Len(DeclaredOrder)) =>
         /\ t_applied = DeclaredOrder
         /\ t_data = <<1, ResizeTarget, ResizeTarget>>
         /\ t_label = <<1, ResizeTarget, ResizeTarget>>
    /\ (Len(t_applied) = 1) =>
         /\ t_data = <<1, CropSize, CropSize>>
         /\ t_label = t_data

\* C7 witness: a 192 x 151 sample, cropped at an offset away from the
\* corner, has left the pipeline
C7_Witness ==
    /\ t_pc > Len(DeclaredOrder)
    /\ t_in = <<192, CropSize + 1>>
    /\ t_offset = <<42, 1>>
    /\ t_data[2] = ResizeTarget
    /\ t_label[3] = ResizeTarget

CeilDiv(n, b) == (n + b - 1) \div b

\* the indices of the batches of this pass, in the order requested
RECURSIVE Flatten(_)
Flatten(bs) == IF bs = <<>> THEN <<>> ELSE Head(bs) \o Flatten(Tail(bs))

Requested == Flatten(m_batches)

BatchLens == [k \in DOMAIN m_batches |-> Len(m_batches[k])]

\* C5: a pass with batch size b over n samples gives ceil(n/b) batches, all
\* but the last of b samples, the last of n - b*(ceil(n/b)-1); every index
\* is delivered once; n = 10, b = 4 gives sizes 4, 4, 2 and n = 1, b = 64
\* gives one batch of one sample.
C5_BatchCountAndSizes ==
    LET n == arg_num_samples
        b == m_b
        nb == CeilDiv(n, b)
    IN /\ Len(m_batches) <= nb
       /\ \A k \in DOMAIN m_batches : k < nb => BatchLens[k] = b
       /\ \A i \in Range(Requested) : i \in 0..(n - 1)
       /\ \A i \in 0..(n - 1) :
            Cardinality({p \in DOMAIN Requested : Requested[p] = i}) <= 1
       /\ (m_remaining = {}) =>
            /\ Len(m_batches) = nb
            /\ BatchLens[nb] = n - b * (nb - 1)
            /\ \A i \in 0..(n - 1) :
                 Cardinality({p \in DOMAIN Requested : Requested[p] = i}) = 1
       /\ (m_remaining = {} /\ n = 10 /\ b = 4) => BatchLens = <<4, 4, 2>>
       /\ (m_remaining = {} /\ n = ValSamples /\ b = BatchSize) => BatchLens = <<1>>

\* C5 witness: the pass over 10 samples by 4 is over, with 3 batches, the
\* last of 2
C5_Witness ==
    /\ arg_num_samples = 10
    /\ m_b = 4
    /\ m_sampler = "sequential"
    /\ m_remaining = {}
    /\ Len(m_batches) = 3
    /\ Len(m_batches[3]) = 2

\* C6: a sequential pass requests 0, 1, ..., n-1 in ascending order; a
\* random pass requests no index twice and, once over, every index of
\* 0..n-1; every pass, the first and each later one, starts from the full
\* index set.
C6_SamplingOrder ==
    LET n == arg_num_samples IN
    /\ (m_sampler = "sequential") => Requested = [p \in 1..Len(Requested) |-> p - 1]
    /\ (m_sampler = "random") =>
         /\ \A p, q \in DOMAIN Requested : p # q => Requested[p] # Requested[q]
         /\ Range(Requested) \subseteq 0..(n - 1)
         /\ (m_remaining = {}) => Range(Requested) = 0..(n - 1)
    /\ (m_remaining = {}) => Len(Requested) = n
    /\ (m_batches = <<>>) => m_remaining = 0..(n - 1)
    /\ m_remaining = (0..(n - 1)) \ Range(Requested)

\* C6 witness: a second, random pass is over and was not in ascending order
C6_Witness ==
    /\ m_sampler = "random"
    /\ m_pass >= 1
    /\ m_remaining = {}
    /\ arg_num_samples >= 3
    /\ Requested[1] > Requested[2]

\* where batch s is: the workers transforming it, finished, received
BusyWith(s) == {w \in Workers : w_busy[w] = s}

Places(s) ==
    Cardinality(BusyWith(s))
    + (IF s \in w_done THEN 1 ELSE 0)
    + Cardinality({p \in DOMAIN w_out : w_out[p] = s})

\* C9: under every interleaving of the workers the consumer receives the
\* batches in sampling order 1, 2, ...; a batch handed out is in exactly one
\* place (with a worker, finished, or received), so none is lost or received
\* twice; when all workers are done, either every batch was received or the
\* next one in order is ready.
C9_BatchesInSamplingOrder ==
    /\ w_out = [p \in 1..Len(w_out) |-> p]
    /\ \A s \in 1..w_total : Places(s) = (IF s < w_pending THEN 1 ELSE 0)
    /\ (w_pending > w_total /\ \A w \in Workers : w_busy[w] = 0) =>
         (Len(w_out) = w_total \/ (Len(w_out) + 1) \in w_done)

\* C9 witness: a later batch was finished before an earlier one, and the
\* consumer has received all batches of the pass
C9_Witness ==
    /\ w_overtook
    /\ w_total >= 3
    /\ Len(w_out) = w_total

====
